---- MODULE Spec2Model ----
(***************************************************************************)
(* The edge worker of laotang-mastra-app (src/src/worker.ts): the fetch    *)
(* router, the two request handlers, the request validators and the        *)
(* single-entry runtime cache behind getMastra.  Every request is an       *)
(* asynchronous task; one action is one synchronous run of JavaScript      *)
(* between two suspension points (await), or the settling of a promise the *)
(* worker awaits.                                                          *)
(***************************************************************************)
EXTENDS Integers, Sequences, FiniteSets, TLC

VARIABLES
    mastraModulePromise,   \* worker.ts:99   "null" | "pending" | "fulfilled" | rejected
    cachedEnvSignature,    \* worker.ts:107  NullSig or the cached serialization
    cachedMastraPromise,   \* worker.ts:108  0 (null) or the index of a construction
    constructions,         \* every promise loadMastraModule().then(createMastra) made so far
    processEnv,            \* the process-wide process.env
    isNodeRuntime,         \* storage.ts:5  whether the process is a Node.js process
    req,                   \* the request tasks
    getMastraLog,          \* history: one entry per getMastra call, in call order
    agentCalls             \* history: the agent.generate calls of each request task

vars == <<mastraModulePromise, cachedEnvSignature, cachedMastraPromise,
          constructions, processEnv, isNodeRuntime, req, getMastraLog, agentCalls>>

(***************************************************************************)
(* Bounds of the model.                                                    *)
(***************************************************************************)
\* Concurrent request tasks of the whole-worker specification.
HttpReqs == 2
\* Concurrent weather requests of the runtime-cache specification.
CacheReqs == 3
\* Concurrent weather requests of the configuration specification.
ConfigReqs == 2
\* Requests of the model-configuration specification.
ModelReqs == 1
\* Requests of the persistence-store specification.
StoreReqs == 1

(***************************************************************************)
(* Environment bindings and their serialization.                           *)
(***************************************************************************)
\* JavaScript's undefined, for a binding that is not set.
Undef == "<undefined>"

\* The insertion order of the object literal buildRuntimeEnv returns.
EntryOrder ==
    <<"LLM_MODEL_ID", "LLM_BASE_URL", "LLM_API_KEY", "OPENAI_API_KEY",
      "LLM_EXTRA_HEADERS", "LIBSQL_URL", "LIBSQL_AUTH_TOKEN">>

\* The seven field names in the order String.prototype.localeCompare gives them.
KeyOrder ==
    <<"LIBSQL_AUTH_TOKEN", "LIBSQL_URL", "LLM_API_KEY", "LLM_BASE_URL",
      "LLM_EXTRA_HEADERS", "LLM_MODEL_ID", "OPENAI_API_KEY">>

KeyRank(k) == CHOOSE i \in 1..Len(KeyOrder) : KeyOrder[i] = k

localeCompare(a, b) == KeyRank(a) - KeyRank(b)

\* A Bindings object: the seven fields the worker reads, and one binding of
\* the deployment that the worker does not read.
BindingsOf(model, url, llmKey, openaiKey, headers, dbUrl, dbToken, other) ==
    [LLM_MODEL_ID |-> model, LLM_BASE_URL |-> url, LLM_API_KEY |-> llmKey,
     OPENAI_API_KEY |-> openaiKey, LLM_EXTRA_HEADERS |-> headers,
     LIBSQL_URL |-> dbUrl, LIBSQL_AUTH_TOKEN |-> dbToken, OTHER_BINDING |-> other]

\* A faulty variant that forgets to copy OPENAI_API_KEY.
buildRuntimeEnvDropsKey(env) ==
    [LLM_MODEL_ID |-> env.LLM_MODEL_ID, LLM_BASE_URL |-> env.LLM_BASE_URL,
     LLM_API_KEY |-> env.LLM_API_KEY, OPENAI_API_KEY |-> Undef,
     LLM_EXTRA_HEADERS |-> env.LLM_EXTRA_HEADERS, LIBSQL_URL |-> env.LIBSQL_URL,
     LIBSQL_AUTH_TOKEN |-> env.LIBSQL_AUTH_TOKEN]

buildRuntimeEnv(env) ==
    [LLM_MODEL_ID |-> env.LLM_MODEL_ID, LLM_BASE_URL |-> env.LLM_BASE_URL,
     LLM_API_KEY |-> env.LLM_API_KEY, OPENAI_API_KEY |-> env.OPENAI_API_KEY,
     LLM_EXTRA_HEADERS |-> env.LLM_EXTRA_HEADERS, LIBSQL_URL |-> env.LIBSQL_URL,
     LIBSQL_AUTH_TOKEN |-> env.LIBSQL_AUTH_TOKEN]

\* Object.entries(env): <<key, value>> pairs in insertion order.
ObjectEntries(renv) == [i \in 1..Len(EntryOrder) |-> <<EntryOrder[i], renv[EntryOrder[i]]>>]

IsDefined(entry) == entry[2] # Undef

RECURSIVE InsertEntry(_, _)
InsertEntry(e, s) ==
    IF s = <<>> THEN <<e>>
    ELSE IF localeCompare(e[1], Head(s)[1]) < 0 THEN <<e>> \o s
    ELSE <<Head(s)>> \o InsertEntry(e, Tail(s))

\* Array.prototype.sort with the comparator ([a], [b]) => a.localeCompare(b).
RECURSIVE SortEntries(_)
SortEntries(s) == IF s = <<>> THEN <<>> ELSE InsertEntry(Head(s), SortEntries(Tail(s)))

\* JSON.stringify(Object.fromEntries(entries)) as its sequence of tokens.
RECURSIVE JSONMembers(_)
JSONMembers(s) == IF s = <<>> THEN <<>> ELSE <<Head(s)[1], Head(s)[2]>> \o JSONMembers(Tail(s))

JSONStringify(entries) == <<"{">> \o JSONMembers(entries) \o <<"}">>

serializeEnv(renv) == JSONStringify(SortEntries(SelectSeq(ObjectEntries(renv), IsDefined)))

\* null for cachedEnvSignature; like the empty string it is falsy, and no
\* serialization equals it (a serialization is at least "{}").
NullSig == <<>>

Truthy(s) == s # Undef /\ s # ""

(***************************************************************************)
(* JSON request bodies and the two zod schemas.                            *)
(***************************************************************************)
\* The longest prompt both schemas accept.
MaxPromptLen == 4000

\* A JSON value by its kind and its length (characters of a string, elements
\* of an array, keys of an object).
Val(kind, len) == [kind |-> kind, len |-> len]
Absent == Val("absent", 0)
Str(n) == Val("string", n)
Num == Val("number", 0)
Parts(n) == Val("array", n)
Obj(n) == Val("object", n)

Message(role, content) == [role |-> role, content |-> content]

NoMessages == [kind |-> "absent", items |-> <<>>]
MessageList(items) == [kind |-> "array", items |-> items]

\* A request body: unparseable text, a JSON value that is no object, or an
\* object with the four members the handlers read.
Body(prompt, messages, threadId, resourceId) ==
    [json |-> TRUE, object |-> TRUE, prompt |-> prompt, messages |-> messages,
     threadId |-> threadId, resourceId |-> resourceId]
MalformedBody == [Body(Absent, NoMessages, Absent, Absent) EXCEPT !.json = FALSE, !.object = FALSE]
NonObjectBody == [Body(Absent, NoMessages, Absent, Absent) EXCEPT !.object = FALSE]

\* z.string().min(lo).max(hi)
ZStringMinMax(v, lo, hi) == v.kind = "string" /\ v.len >= lo /\ v.len <= hi
\* z.string().min(lo)
ZStringMin(v, lo) == v.kind = "string" /\ v.len >= lo
\* z.string()
ZString(v) == v.kind = "string"

ZRoles == {"user", "assistant", "system"}

ZMessage(m) == m.role \in ZRoles /\ ZStringMin(m.content, 1)

ZMessages(ms) == ms.kind = "array" /\ \A i \in 1..Len(ms.items) : ZMessage(ms.items[i])

\* A faulty variant that asks for messages to be present, not to be non-empty.
sceneScriptRefinePresence(value) ==
    \/ (value.prompt.kind = "string" /\ value.prompt.len > 0)
    \/ value.messages.kind # "absent"

\* Boolean(value.prompt) || (value.messages && value.messages.length > 0)
sceneScriptRefine(value) ==
    \/ (value.prompt.kind = "string" /\ value.prompt.len > 0)
    \/ (value.messages.kind # "absent" /\ Len(value.messages.items) > 0)

sceneScriptSchema(body) ==
    /\ body.object
    /\ (body.prompt.kind = "absent" \/ ZStringMinMax(body.prompt, 1, MaxPromptLen))
    /\ (body.messages.kind = "absent" \/ ZMessages(body.messages))
    /\ (body.threadId.kind = "absent" \/ ZString(body.threadId))
    /\ (body.resourceId.kind = "absent" \/ ZString(body.resourceId))
    /\ sceneScriptRefine(body)

\* A faulty variant without the upper bound on the prompt.
weatherSchemaNoMax(body) ==
    /\ body.object
    /\ ZStringMin(body.prompt, 1)

weatherSchema(body) ==
    /\ body.object
    /\ ZStringMinMax(body.prompt, 1, MaxPromptLen)

(***************************************************************************)
(* Responses.                                                              *)
(***************************************************************************)
corsHeaders ==
    { <<"Access-Control-Allow-Origin", "*">>,
      <<"Access-Control-Allow-Headers", "Content-Type, Authorization">>,
      <<"Access-Control-Allow-Methods", "GET,POST,OPTIONS">> }

\* A JSON response body by its member names and the value of its error member.
JsonBody(keys, error) == [keys |-> keys, error |-> error]
EmptyBody == JsonBody({}, "")
ErrorBody(msg) == JsonBody({"error"}, msg)
IssuesBody == JsonBody({"error", "issues"}, "Invalid request payload")
ResultBody == JsonBody({"text", "usage", "finishReason"}, "")
HealthBody == JsonBody({"ok", "message"}, "")

Response(status, headers, body) == [status |-> status, headers |-> headers, body |-> body]
NoResponse == Response(0, {}, EmptyBody)

HasHeader(headers, name) == \E h \in headers : h[1] = name

\* new Response(body, {status, headers}): a body of text gets the content
\* type of text unless the headers name one; a null body gets none.
NewResponse(body, status, headers) ==
    Response(status,
             IF body # EmptyBody /\ ~HasHeader(headers, "Content-Type")
             THEN headers \cup { <<"Content-Type", "text/plain;charset=UTF-8">> }
             ELSE headers,
             body)

jsonResponse(data, status) ==
    NewResponse(data, status,
                corsHeaders \cup { <<"Content-Type", "application/json; charset=utf-8">> })

\* The classes of error the catch block of fetch tells apart: a ZodError, a
\* SyntaxError, and any other error.
ErrorClasses == {"Error", "SyntaxError", "ZodError"}

\* A faulty variant of the catch block without the SyntaxError branch.
ErrorResponseNoSyntaxBranch(class) ==
    IF class = "ZodError" THEN jsonResponse(IssuesBody, 400)
    ELSE jsonResponse(ErrorBody("Internal Server Error"), 500)

\* The catch block of fetch, by the class of the error thrown.
ErrorResponse(class) ==
    IF class = "ZodError" THEN jsonResponse(IssuesBody, 400)
    ELSE IF class = "SyntaxError" THEN jsonResponse(ErrorBody("Invalid JSON body"), 400)
    ELSE jsonResponse(ErrorBody("Internal Server Error"), 500)

(***************************************************************************)
(* Model configuration (src/src/mastra/config/model.ts).                   *)
(***************************************************************************)
DefaultModelId == "openai/gpt-4o-mini"

\* JSON.parse of the sample LLM_EXTRA_HEADERS texts, then the filter that
\* keeps the string-valued members of an object: the names kept, or Undef
\* when the text is no JSON, no object, or holds no string-valued member.
parseHeadersOf(raw) ==
    IF ~Truthy(raw) THEN Undef
    ELSE IF raw = "{'X-Trace':'1'}" THEN "X-Trace=1"
    ELSE IF raw = "{'X-Trace':'1','X-N':2}" THEN "X-Trace=1"
    ELSE Undef

parseHeaders == parseHeadersOf(processEnv.LLM_EXTRA_HEADERS)

NoModel == [resolved |-> FALSE, override |-> FALSE, id |-> "", url |-> Undef,
            apiKey |-> Undef, headers |-> Undef]

\* A faulty variant that prefers the legacy key OPENAI_API_KEY.
getDefaultModelConfigLegacyFirst ==
    LET id == IF processEnv.LLM_MODEL_ID # Undef THEN processEnv.LLM_MODEL_ID
              ELSE DefaultModelId
        url == processEnv.LLM_BASE_URL
        apiKey == IF processEnv.OPENAI_API_KEY # Undef THEN processEnv.OPENAI_API_KEY
                  ELSE processEnv.LLM_API_KEY
        headers == parseHeaders
        hasOverride == Truthy(url) \/ Truthy(apiKey) \/ headers # Undef
    IN  [resolved |-> TRUE, override |-> hasOverride, id |-> id,
         url |-> IF Truthy(url) /\ hasOverride THEN url ELSE Undef,
         apiKey |-> IF Truthy(apiKey) /\ hasOverride THEN apiKey ELSE Undef,
         headers |-> IF hasOverride THEN headers ELSE Undef]

\* getDefaultModelConfig reads process.env at the time the agent resolves its
\* model; a field of the override that was not set is Undef.
getDefaultModelConfig ==
    LET id == IF processEnv.LLM_MODEL_ID # Undef THEN processEnv.LLM_MODEL_ID
              ELSE DefaultModelId
        url == processEnv.LLM_BASE_URL
        apiKey == IF processEnv.LLM_API_KEY # Undef THEN processEnv.LLM_API_KEY
                  ELSE processEnv.OPENAI_API_KEY
        headers == parseHeaders
        hasOverride == Truthy(url) \/ Truthy(apiKey) \/ headers # Undef
    IN  [resolved |-> TRUE, override |-> hasOverride, id |-> id,
         url |-> IF Truthy(url) /\ hasOverride THEN url ELSE Undef,
         apiKey |-> IF Truthy(apiKey) /\ hasOverride THEN apiKey ELSE Undef,
         headers |-> IF hasOverride THEN headers ELSE Undef]

(***************************************************************************)
(* The persistence store (src/src/mastra/config/storage.ts).               *)
(***************************************************************************)
\* The text of a sample URL before its first colon.
SchemeOf(url) ==
    IF url = "libsql://db.example" THEN "libsql"
    ELSE IF url = "http://db.example" THEN "http"
    ELSE IF url = "https://db.example" THEN "https"
    ELSE IF url = "ws://db.example" THEN "ws"
    ELSE IF url = "wss://db.example" THEN "wss"
    ELSE IF url \in {"file:local.db", "file:../mastra.db"} THEN "file"
    ELSE IF url = "ftp://db.example" THEN "ftp"
    ELSE ""

\* /^(libsql|https?|wss?):/.test(url)
SUPPORTED_REMOTE_PROTOCOL(url) == SchemeOf(url) \in {"libsql", "http", "https", "ws", "wss"}

\* A faulty variant that takes a file: URL on every runtime.
canUseUrlFileAnywhere(url) ==
    IF ~Truthy(url) THEN FALSE
    ELSE IF SchemeOf(url) = "file" THEN TRUE
    ELSE SUPPORTED_REMOTE_PROTOCOL(url)

canUseUrl(url) ==
    IF ~Truthy(url) THEN FALSE
    ELSE IF SchemeOf(url) = "file" THEN isNodeRuntime
    ELSE SUPPORTED_REMOTE_PROTOCOL(url)

\* null for a LibSQLConfig.
NoLibSQLConfig == [url |-> Undef, authToken |-> Undef]

resolveLibSQLConfig(env) ==
    IF canUseUrl(env.LIBSQL_URL)
    THEN [url |-> env.LIBSQL_URL, authToken |-> env.LIBSQL_AUTH_TOKEN]
    ELSE IF ~Truthy(env.LIBSQL_URL) /\ isNodeRuntime
    THEN [url |-> "file:../mastra.db", authToken |-> Undef]
    ELSE NoLibSQLConfig

\* A store by its class and the options its constructor got.
Store(class, url, authToken) == [class |-> class, url |-> url, authToken |-> authToken]
NoStore == Store("", Undef, Undef)

createPersistentStore(env) ==
    LET libsqlConfig == resolveLibSQLConfig(env)
    IN  IF libsqlConfig # NoLibSQLConfig
        THEN Store("LibSQLStore", libsqlConfig.url,
                   IF Truthy(libsqlConfig.authToken) THEN libsqlConfig.authToken ELSE Undef)
        ELSE Store("InMemoryStore", Undef, Undef)

(***************************************************************************)
(* The request tasks.                                                      *)
(***************************************************************************)
NoBindings == BindingsOf(Undef, Undef, Undef, Undef, Undef, Undef, Undef, Undef)
NoBody == Body(Absent, NoMessages, Absent, Absent)
NoMemory == [defined |-> FALSE, thread |-> Absent, resource |-> Absent]

\* A request task before fetch is called for it.
IdleReq ==
    [pc |-> "idle", method |-> "", path |-> "", env |-> NoBindings, body |-> NoBody,
     input |-> NoBody, got |-> 0, agent |-> "", runtime |-> 0, store |-> NoStore,
     model |-> NoModel, modelSource |-> buildRuntimeEnv(NoBindings),
     failed |-> "", resp |-> NoResponse]

Finish(task, response) == [task EXCEPT !.pc = "done", !.resp = response]

\* An awaited promise rejected with an error of the given class, which ends
\* the task in the catch block of fetch; failed records which promise it was.
Fail(task, what, class) == [Finish(task, ErrorResponse(class)) EXCEPT !.failed = what]

\* The agents createMastra registers (src/unnamed/part_002).
RegisteredAgents == {"weatherAgent", "sceneScriptAgent"}

\* The agent createSceneScriptAgent() makes outside any runtime.
StandaloneSceneAgent == "Scene Script Agent"

(***************************************************************************)
(* fetch: the router, up to the first suspension of the handler.           *)
(***************************************************************************)
\* Faulty variants of the router: one that matches the two endpoints by
\* path alone, and one that answers OPTIONS for the path "/" only.
RouteOfByPath(method, path) ==
    IF method = "OPTIONS" THEN "options"
    ELSE IF method = "GET" /\ path = "/" THEN "health"
    ELSE IF path = "/api/scene-script" THEN "scene"
    ELSE IF path = "/api/weather" THEN "weather"
    ELSE "notfound"

RouteOfOptionsOnRoot(method, path) ==
    IF method = "OPTIONS" /\ path = "/" THEN "options"
    ELSE IF method = "GET" /\ path = "/" THEN "health"
    ELSE IF method = "POST" /\ path = "/api/scene-script" THEN "scene"
    ELSE IF method = "POST" /\ path = "/api/weather" THEN "weather"
    ELSE "notfound"

RouteOf(method, path) ==
    IF method = "OPTIONS" THEN "options"
    ELSE IF method = "GET" /\ path = "/" THEN "health"
    ELSE IF method = "POST" /\ path = "/api/scene-script" THEN "scene"
    ELSE IF method = "POST" /\ path = "/api/weather" THEN "weather"
    ELSE "notfound"

Fetch(r, method, path, env, body) ==
    /\ req[r].pc = "idle"
    /\ \A q \in DOMAIN req : q < r => req[q].pc # "idle"
    /\ LET task == [req[r] EXCEPT !.method = method, !.path = path,
                                  !.env = env, !.body = body]
           route == RouteOf(method, path)
       IN  req' = [req EXCEPT ![r] =
                IF route = "options" THEN Finish(task, NewResponse(EmptyBody, 204, corsHeaders))
                ELSE IF route = "health" THEN Finish(task, jsonResponse(HealthBody, 200))
                ELSE IF route \in {"scene", "weather"} THEN [task EXCEPT !.pc = "json"]
                ELSE Finish(task, jsonResponse(ErrorBody("Not Found"), 404))]
    /\ UNCHANGED <<mastraModulePromise, cachedEnvSignature, cachedMastraPromise,
                   constructions, processEnv, isNodeRuntime, getMastraLog, agentCalls>>

(***************************************************************************)
(* getMastra and the runtime cache.                                        *)
(***************************************************************************)
\* Whether the cached promise is still pending (for the history only).
CachedInFlight ==
    /\ cachedMastraPromise # 0
    /\ constructions[cachedMastraPromise].state = "pending"

\* Faulty variants of the cache test: one that never compares signatures,
\* one that compares the configuration objects by identity (never equal),
\* and one that reuses only a construction that has settled.
CacheMissIgnoresSignature(signature) ==
    \/ cachedEnvSignature = NullSig
    \/ cachedMastraPromise = 0

CacheMissByIdentity(signature) ==
    \/ cachedEnvSignature = NullSig
    \/ TRUE
    \/ cachedMastraPromise = 0

CacheMissWhilePending(signature) ==
    \/ cachedEnvSignature = NullSig
    \/ cachedEnvSignature # signature
    \/ cachedMastraPromise = 0
    \/ CachedInFlight

\* A faulty variant that builds anew when the cached construction has failed.
CacheMissRetriesFailed(signature) ==
    \/ cachedEnvSignature = NullSig
    \/ cachedEnvSignature # signature
    \/ cachedMastraPromise = 0
    \/ (cachedMastraPromise # 0 /\ constructions[cachedMastraPromise].state = "rejected")

\* The condition of the if statement of getMastra.
CacheMiss(signature) ==
    \/ cachedEnvSignature = NullSig
    \/ cachedEnvSignature # signature
    \/ cachedMastraPromise = 0

\* The state of the import promise once it rejected with an error of a class.
RejectedWith(class) ==
    IF class = "SyntaxError" THEN "rejected: SyntaxError"
    ELSE IF class = "ZodError" THEN "rejected: ZodError"
    ELSE "rejected: Error"

ModuleRejected == \E class \in ErrorClasses : mastraModulePromise = RejectedWith(class)

ModuleError == CHOOSE class \in ErrorClasses : mastraModulePromise = RejectedWith(class)

\* loadMastraModule(): the import is started once and memoized.
loadMastraModule == IF mastraModulePromise = "null" THEN "pending" ELSE mastraModulePromise

\* loadMastraModule().then(({createMastra}) => createMastra({env: runtimeEnv}))
NewConstruction(runtimeEnv) ==
    [env |-> runtimeEnv, state |-> "pending", created |-> 0, error |-> "",
     store |-> NoStore]

\* The promise getMastra returns: the fresh one on a miss, the cached one on a hit.
GetMastraResult(miss) == IF miss THEN Len(constructions) + 1 ELSE cachedMastraPromise

\* The whole of getMastra(env) for request r; it has no await, so it runs
\* without interruption.
GetMastra(r, env) ==
    LET runtimeEnv == buildRuntimeEnv(env)
        signature == serializeEnv(runtimeEnv)
        miss == CacheMiss(signature)
    IN  /\ mastraModulePromise' = IF miss THEN loadMastraModule ELSE mastraModulePromise
        /\ constructions' = IF miss THEN Append(constructions, NewConstruction(runtimeEnv))
                            ELSE constructions
        /\ cachedMastraPromise' = GetMastraResult(miss)
        /\ cachedEnvSignature' = IF miss THEN signature ELSE cachedEnvSignature
        /\ getMastraLog' = Append(getMastraLog,
               [r |-> r, env |-> env, signature |-> signature, built |-> miss,
                inflight |-> CachedInFlight, ret |-> cachedMastraPromise',
                count |-> Len(constructions')])

\* The dynamic import("./mastra") settles: with the module, or with an error.
ModuleSettles(ok, class) ==
    /\ mastraModulePromise = "pending"
    /\ mastraModulePromise' = IF ok THEN "fulfilled" ELSE RejectedWith(class)
    /\ UNCHANGED <<cachedEnvSignature, cachedMastraPromise, constructions, processEnv,
                   isNodeRuntime,
                   req, getMastraLog, agentCalls>>

\* Reactions registered on one promise run in the order of registration.
NextReaction(c) ==
    /\ c \in 1..Len(constructions)
    /\ constructions[c].state = "pending"
    /\ \A d \in 1..(c - 1) : constructions[d].state # "pending"

\* The then callback of construction c: createMastra({env}) returns the
\* runtime, with the store createPersistentStore(env) makes for it, or
\* throws an error of some class.
CreateMastra(c, ok, class) ==
    /\ mastraModulePromise = "fulfilled"
    /\ NextReaction(c)
    /\ constructions' = [constructions EXCEPT
            ![c].created = @ + 1,
            ![c].state = IF ok THEN "fulfilled" ELSE "rejected",
            ![c].error = IF ok THEN "" ELSE class,
            ![c].store = IF ok THEN createPersistentStore(constructions[c].env) ELSE NoStore]
    /\ UNCHANGED <<mastraModulePromise, cachedEnvSignature, cachedMastraPromise,
                   processEnv, isNodeRuntime, req, getMastraLog, agentCalls>>

\* The import failed: the then callback is skipped and the promise rejects
\* with the error of the import.
ImportFailure(c) ==
    /\ ModuleRejected
    /\ NextReaction(c)
    /\ constructions' = [constructions EXCEPT ![c].state = "rejected",
                                              ![c].error = ModuleError]
    /\ UNCHANGED <<mastraModulePromise, cachedEnvSignature, cachedMastraPromise,
                   processEnv, isNodeRuntime, req, getMastraLog, agentCalls>>

(***************************************************************************)
(* handleWeather.                                                          *)
(***************************************************************************)
\* A faulty variant that sends the prompt as a system message.
WeatherMessagesAsSystem(input) == <<Message("system", input.prompt)>>

\* The message list handleWeather hands to the agent.
WeatherMessages(input) == <<Message("user", input.prompt)>>

AgentCall(agent, runtime, messages, memory) ==
    [agent |-> agent, runtime |-> runtime, messages |-> messages, memory |-> memory]

\* request.json() settled: parse the body with weatherSchema, then call
\* getMastra(env) and suspend on the promise it returns.
WeatherBody(r) ==
    /\ req[r].pc = "json"
    /\ RouteOf(req[r].method, req[r].path) = "weather"
    /\ IF ~req[r].body.json
       THEN /\ req' = [req EXCEPT ![r] = Finish(@, ErrorResponse("SyntaxError"))]
            /\ UNCHANGED <<mastraModulePromise, cachedEnvSignature, cachedMastraPromise,
                           constructions, getMastraLog>>
       ELSE IF ~weatherSchema(req[r].body)
       THEN /\ req' = [req EXCEPT ![r] = Finish(@, ErrorResponse("ZodError"))]
            /\ UNCHANGED <<mastraModulePromise, cachedEnvSignature, cachedMastraPromise,
                           constructions, getMastraLog>>
       ELSE /\ GetMastra(r, req[r].env)
            /\ req' = [req EXCEPT ![r].pc = "awaitMastra",
                                  ![r].input = Body(req[r].body.prompt, NoMessages, Absent, Absent),
                                  ![r].got = cachedMastraPromise']
    /\ UNCHANGED <<processEnv, isNodeRuntime, agentCalls>>

\* The promise of getMastra settled: a rejection is thrown into the catch
\* block of fetch; otherwise the agent is looked up and generate is called.
WeatherResume(r) ==
    /\ req[r].pc = "awaitMastra"
    /\ constructions[req[r].got].state # "pending"
    /\ IF constructions[req[r].got].state = "rejected"
       THEN /\ req' = [req EXCEPT ![r] =
                   Fail(@, "construction", constructions[req[r].got].error)]
            /\ UNCHANGED agentCalls
       ELSE IF "weatherAgent" \notin RegisteredAgents
       THEN /\ req' = [req EXCEPT ![r] =
                   Finish(@, jsonResponse(ErrorBody("Weather agent is not configured."), 500))]
            /\ UNCHANGED agentCalls
       ELSE /\ req' = [req EXCEPT ![r].pc = "awaitGenerate",
                                  ![r].agent = "weatherAgent",
                                  ![r].runtime = req[r].got]
            /\ agentCalls' = [agentCalls EXCEPT ![r] = Append(@,
                   AgentCall("weatherAgent", req[r].got,
                             WeatherMessages(req[r].input), NoMemory))]
    /\ UNCHANGED <<mastraModulePromise, cachedEnvSignature, cachedMastraPromise,
                   constructions, processEnv, isNodeRuntime, getMastraLog>>

(***************************************************************************)
(* handleSceneScript.                                                      *)
(***************************************************************************)
\* input.messages ? input.messages : [{role: "user", content: input.prompt}]
\* (an array, empty or not, is truthy).
SceneMessages(input) ==
    IF input.messages.kind # "absent" THEN input.messages.items
    ELSE <<Message("user", input.prompt)>>

\* The memory option: set when threadId is a non-empty string; resource
\* Absent stands for the default "scene-script".
SceneMemory(input) ==
    IF input.threadId.kind = "string" /\ input.threadId.len > 0
    THEN [defined |-> TRUE, thread |-> input.threadId, resource |-> input.resourceId]
    ELSE NoMemory

\* request.json() settled: parse the body with sceneScriptSchema, check
\* env.OPENAI_API_KEY, write it to process.env, create the agent and call
\* generate.
SceneScriptBody(r) ==
    /\ req[r].pc = "json"
    /\ RouteOf(req[r].method, req[r].path) = "scene"
    /\ IF ~req[r].body.json
       THEN /\ req' = [req EXCEPT ![r] = Finish(@, ErrorResponse("SyntaxError"))]
            /\ UNCHANGED <<processEnv, agentCalls>>
       ELSE IF ~sceneScriptSchema(req[r].body)
       THEN /\ req' = [req EXCEPT ![r] = Finish(@, ErrorResponse("ZodError"))]
            /\ UNCHANGED <<processEnv, agentCalls>>
       ELSE IF ~Truthy(req[r].env.OPENAI_API_KEY)
       THEN /\ req' = [req EXCEPT ![r] =
                   Finish([@ EXCEPT !.input = req[r].body],
                          NewResponse(ErrorBody("OPENAI_API_KEY not configured"), 500,
                                      corsHeaders))]
            /\ UNCHANGED <<processEnv, agentCalls>>
       ELSE /\ processEnv' = [processEnv EXCEPT !.OPENAI_API_KEY = req[r].env.OPENAI_API_KEY]
            /\ req' = [req EXCEPT ![r].pc = "awaitGenerate",
                                  ![r].input = req[r].body,
                                  ![r].agent = StandaloneSceneAgent,
                                  ![r].store = createPersistentStore(buildRuntimeEnv(NoBindings))]
            /\ agentCalls' = [agentCalls EXCEPT ![r] = Append(@,
                   AgentCall(StandaloneSceneAgent, 0,
                             SceneMessages(req[r].body), SceneMemory(req[r].body)))]
    /\ UNCHANGED <<mastraModulePromise, cachedEnvSignature, cachedMastraPromise,
                   constructions, isNodeRuntime, getMastraLog>>

(***************************************************************************)
(* The agent (external): it resolves its model through the model callback  *)
(* of this repository at some point of generate, then settles.             *)
(***************************************************************************)
ResolveModel(r) ==
    /\ req[r].pc = "awaitGenerate"
    /\ ~req[r].model.resolved
    /\ req' = [req EXCEPT ![r].model = getDefaultModelConfig,
                          ![r].modelSource = processEnv]
    /\ UNCHANGED <<mastraModulePromise, cachedEnvSignature, cachedMastraPromise,
                   constructions, processEnv, isNodeRuntime, getMastraLog, agentCalls>>

\* agent.generate settles: with an output once the model is resolved, or with
\* an error of some class that reaches the catch block of fetch.
GenerateSettles(r, ok, class) ==
    /\ req[r].pc = "awaitGenerate"
    /\ ok => req[r].model.resolved
    /\ req' = [req EXCEPT ![r] =
            IF ok THEN [@ EXCEPT !.pc = "awaitOutput"]
            ELSE Fail(@, "generate", class)]
    /\ UNCHANGED <<mastraModulePromise, cachedEnvSignature, cachedMastraPromise,
                   constructions, processEnv, isNodeRuntime, getMastraLog, agentCalls>>

\* Promise.all([output.text, output.usage, output.finishReason]) settles.
OutputSettles(r, ok, class) ==
    /\ req[r].pc = "awaitOutput"
    /\ req' = [req EXCEPT ![r] =
            IF ok THEN Finish(@, jsonResponse(ResultBody, 200))
            ELSE Fail(@, "output", class)]
    /\ UNCHANGED <<mastraModulePromise, cachedEnvSignature, cachedMastraPromise,
                   constructions, processEnv, isNodeRuntime, getMastraLog, agentCalls>>

(***************************************************************************)
(* Inputs.                                                                 *)
(***************************************************************************)
Methods == {"OPTIONS", "GET", "POST"}
Paths == {"/", "/api/scene-script", "/api/weather", "/api/unknown"}

EnvBase ==
    BindingsOf("openai/gpt-4o", "https://llm.example", "lk1", "ok1",
               "{'X-Trace':'1'}", "libsql://db.example", "tok1", "x")

\* EnvBase with one field given another value, set to "" or left unset.
EnvVariants ==
    { [EnvBase EXCEPT !.LLM_MODEL_ID = Undef],
      [EnvBase EXCEPT !.LLM_BASE_URL = ""],
      [EnvBase EXCEPT !.LLM_API_KEY = "lk2"],
      [EnvBase EXCEPT !.OPENAI_API_KEY = "ok2"],
      [EnvBase EXCEPT !.LLM_EXTRA_HEADERS = Undef],
      [EnvBase EXCEPT !.LIBSQL_URL = "file:local.db"],
      [EnvBase EXCEPT !.LIBSQL_AUTH_TOKEN = ""] }

\* EnvBase with another value of the binding the worker does not read.
EnvOther == [EnvBase EXCEPT !.OTHER_BINDING = "y"]

\* The bindings of the runtime-cache specification: two that serialize alike
\* and one that differs in the API key only.
CacheEnvs == {EnvBase, EnvOther, [EnvBase EXCEPT !.OPENAI_API_KEY = "ok2"]}

\* The bindings of the configuration specification.
ConfigEnvs == {EnvBase, EnvOther} \cup EnvVariants

HttpEnvs ==
    { EnvBase,
      [EnvBase EXCEPT !.OPENAI_API_KEY = "ok2"],
      [EnvBase EXCEPT !.OPENAI_API_KEY = Undef] }

\* Values of process.env when the worker starts: each of the five variables
\* getDefaultModelConfig reads is unset, empty or set.
ModelProcessEnvs ==
    { [buildRuntimeEnv(NoBindings) EXCEPT
           !.LLM_MODEL_ID = m, !.LLM_BASE_URL = u, !.LLM_API_KEY = k,
           !.OPENAI_API_KEY = o, !.LLM_EXTRA_HEADERS = h] :
        m \in {Undef, "openai/gpt-4o"},
        u \in {Undef, "", "https://llm.example"},
        k \in {Undef, "", "lk1"},
        o \in {Undef, "", "ok1"},
        h \in {Undef, "not json", "{'X-N':2}", "{'X-Trace':'1'}"} }

\* The bindings of the model-configuration specification.
ModelEnvs == {EnvBase, [EnvBase EXCEPT !.OPENAI_API_KEY = "ok2"]}

\* Sample values of LIBSQL_URL: of each supported remote scheme, a file,
\* and two that are no usable URL.
RemoteUrls ==
    {"libsql://db.example", "http://db.example", "https://db.example",
     "ws://db.example", "wss://db.example"}
FileUrls == {"file:local.db"}
UnsupportedUrls == {"ftp://db.example", ":memory:"}

\* The bindings of the persistence-store specification.
StoreEnvs ==
    { [EnvBase EXCEPT !.LIBSQL_URL = u, !.LIBSQL_AUTH_TOKEN = t] :
        u \in {Undef, ""} \cup RemoteUrls \cup FileUrls \cup UnsupportedUrls,
        t \in {Undef, "", "tok1"} }

PromptVals == {Absent, Num, Str(0), Str(1), Str(MaxPromptLen), Str(MaxPromptLen + 1)}

ValidMessage == Message("user", Str(1))

\* Bodies sent to /api/scene-script.
SceneBodies ==
    {MalformedBody, NonObjectBody}
    \cup { Body(p, m, Absent, Absent) :
             p \in {Absent, Str(0), Str(1), Str(MaxPromptLen + 1)},
             m \in {NoMessages, MessageList(<<>>), MessageList(<<ValidMessage>>)} }
    \cup { Body(Num, NoMessages, Absent, Absent),
           Body(Str(MaxPromptLen), NoMessages, Absent, Absent),
           Body(Absent, MessageList(<<Message("user", Str(0))>>), Absent, Absent),
           Body(Absent, MessageList(<<Message("user", Parts(1))>>), Absent, Absent),
           Body(Absent, MessageList(<<Message("tool", Str(1))>>), Absent, Absent),
           Body(Absent, MessageList(<<ValidMessage, Message("assistant", Str(1))>>), Absent, Absent),
           Body(Str(1), NoMessages, Str(2), Absent),
           Body(Str(1), NoMessages, Str(2), Str(3)),
           Body(Str(1), NoMessages, Str(0), Str(3)) }

\* Bodies sent to /api/weather.
WeatherBodies ==
    {MalformedBody, NonObjectBody}
    \cup { Body(p, NoMessages, Absent, Absent) : p \in PromptVals }
    \cup { Body(Absent, MessageList(<<ValidMessage>>), Absent, Absent) }

ValidWeatherBody == Body(Str(1), NoMessages, Absent, Absent)

\* The bodies sent with a request of the given method and path.
BodiesFor(method, path) ==
    IF RouteOf(method, path) = "scene" THEN SceneBodies
    ELSE IF RouteOf(method, path) = "weather" THEN WeatherBodies
    ELSE {ValidWeatherBody}

(***************************************************************************)
(* Specifications.                                                         *)
(***************************************************************************)
\* The worker after its module was loaded, with n request tasks to come.
InitWorker(n) ==
    /\ mastraModulePromise = "null"
    /\ cachedEnvSignature = NullSig
    /\ cachedMastraPromise = 0
    /\ constructions = <<>>
    /\ req = [r \in 1..n |-> IdleReq]
    /\ getMastraLog = <<>>
    /\ agentCalls = [r \in 1..n |-> <<>>]

\* The worker on the edge runtime, its process.env empty.
InitWith(n) ==
    /\ mastraModulePromise = "null"
    /\ cachedEnvSignature = NullSig
    /\ cachedMastraPromise = 0
    /\ constructions = <<>>
    /\ processEnv = buildRuntimeEnv(NoBindings)
    /\ isNodeRuntime = FALSE
    /\ req = [r \in 1..n |-> IdleReq]
    /\ getMastraLog = <<>>
    /\ agentCalls = [r \in 1..n |-> <<>>]

Reqs == DOMAIN req

\* The runtime cache and its users, up to the call of the agent.
CacheSteps ==
    \/ \E ok \in BOOLEAN, class \in ErrorClasses : ModuleSettles(ok, class)
    \/ \E c \in 1..Len(constructions), ok \in BOOLEAN, class \in ErrorClasses :
          CreateMastra(c, ok, class)
    \/ \E c \in 1..Len(constructions) : ImportFailure(c)
    \/ \E r \in Reqs : WeatherBody(r)
    \/ \E r \in Reqs : WeatherResume(r)

\* The agent's side of a request.
AgentSteps ==
    \/ \E r \in Reqs : ResolveModel(r)
    \/ \E r \in Reqs, ok \in BOOLEAN, class \in ErrorClasses : GenerateSettles(r, ok, class)
    \/ \E r \in Reqs, ok \in BOOLEAN, class \in ErrorClasses : OutputSettles(r, ok, class)

\* The whole worker: any request on any route.
Init == InitWith(HttpReqs)

Next ==
    \/ \E r \in Reqs, method \in Methods, path \in Paths, env \in HttpEnvs :
          \E body \in BodiesFor(method, path) : Fetch(r, method, path, env, body)
    \/ \E r \in Reqs : SceneScriptBody(r)
    \/ CacheSteps
    \/ AgentSteps

Spec == Init /\ [][Next]_vars

\* The runtime cache under concurrent weather requests with valid bodies.
InitCache == InitWith(CacheReqs)

NextCache ==
    \/ \E r \in Reqs, env \in CacheEnvs :
          Fetch(r, "POST", "/api/weather", env, ValidWeatherBody)
    \/ CacheSteps

SpecCache == InitCache /\ [][NextCache]_vars

\* The runtime cache under every one-field change of the configuration.
InitConfig == InitWith(ConfigReqs)

NextConfig ==
    \/ \E r \in Reqs, env \in ConfigEnvs :
          Fetch(r, "POST", "/api/weather", env, ValidWeatherBody)
    \/ CacheSteps

SpecConfig == InitConfig /\ [][NextConfig]_vars

\* The model configuration under every value of process.env, resolved by
\* the agent of a weather or a scene-script request.
InitModel ==
    /\ InitWorker(ModelReqs)
    /\ processEnv \in ModelProcessEnvs
    /\ isNodeRuntime = FALSE

NextModel ==
    \/ \E r \in Reqs, path \in {"/api/scene-script", "/api/weather"}, env \in ModelEnvs :
          Fetch(r, "POST", path, env, ValidWeatherBody)
    \/ \E r \in Reqs : SceneScriptBody(r)
    \/ CacheSteps
    \/ AgentSteps

SpecModel == InitModel /\ [][NextModel]_vars

\* The store of the runtime under every LIBSQL_URL and token, on a Node.js
\* process and on the edge runtime.
InitStore ==
    /\ InitWorker(StoreReqs)
    /\ processEnv = buildRuntimeEnv(NoBindings)
    /\ isNodeRuntime \in BOOLEAN

NextStore ==
    \/ \E r \in Reqs, env \in StoreEnvs :
          Fetch(r, "POST", "/api/weather", env, ValidWeatherBody)
    \/ CacheSteps

SpecStore == InitStore /\ [][NextStore]_vars

(***************************************************************************)
(* Properties of the runtime cache.                                        *)
(***************************************************************************)
Calls == 1..Len(getMastraLog)

Settled(c) == constructions[c].state # "pending"

\* Call i opens a run of calls with one signature, and the run reaches call j.
SameSignatureRun(i, j) ==
    /\ i \in Calls /\ j \in Calls /\ i <= j
    /\ (i = 1 \/ getMastraLog[i - 1].signature # getMastraLog[i].signature)
    /\ \A k \in i..j : getMastraLog[k].signature = getMastraLog[i].signature

\* What every run of same-signature calls does: the first call starts the one
\* construction of the run, no later call starts another, and all calls
\* return that one promise.
RunSharesOneConstruction(i, j) ==
    /\ getMastraLog[i].built
    /\ getMastraLog[i].ret = getMastraLog[i].count
    /\ \A k \in (i + 1)..j :
          /\ ~getMastraLog[k].built
          /\ getMastraLog[k].ret = getMastraLog[i].ret
          /\ getMastraLog[k].count = getMastraLog[i].count

\* C1 as stated: in a run of getMastra calls with one signature and no call
\* for another signature in between, createMastra is invoked exactly once
\* (exactly one invocation once the run's promise has settled) and every
\* call returns the identical cached promise.
C1_CreateMastraExactlyOnce ==
    \A i \in Calls, j \in Calls :
        SameSignatureRun(i, j) =>
            /\ RunSharesOneConstruction(i, j)
            /\ Settled(getMastraLog[i].ret) => constructions[getMastraLog[i].ret].created = 1

\* C1 amended: in such a run exactly one construction is started, by the
\* first call; createMastra is invoked for it at most once: exactly once
\* when the module import succeeded and never when it failed; and every call
\* of the run returns the identical cached promise.
C1_OneConstructionPerRun ==
    \A i \in Calls, j \in Calls :
        SameSignatureRun(i, j) =>
            /\ RunSharesOneConstruction(i, j)
            /\ constructions[getMastraLog[i].ret].created =
                  (IF Settled(getMastraLog[i].ret) /\ mastraModulePromise = "fulfilled"
                   THEN 1 ELSE 0)

\* Three calls of two different requests and more share one runtime that
\* createMastra built.
C1_Witness ==
    \E i \in Calls, j \in Calls :
        /\ SameSignatureRun(i, j)
        /\ j = i + 2
        /\ getMastraLog[i].env # getMastraLog[j].env
        /\ constructions[getMastraLog[i].ret].state = "fulfilled"
        /\ constructions[getMastraLog[i].ret].created = 1

\* The seven fields of the runtime configuration.
RuntimeFields == {EntryOrder[i] : i \in 1..Len(EntryOrder)}

DifferingFields(e1, e2) == {f \in RuntimeFields : e1[f] # e2[f]}

\* C2: a getMastra call whose bindings differ from those of the cached
\* configuration (the previous call's) in any of the seven fields starts
\* exactly one new construction, for the new configuration, and returns it,
\* never the earlier promise, which the cache no longer holds.
C2_ChangedFieldRebuilds ==
    /\ \A i \in Calls :
          (i > 1 /\ DifferingFields(getMastraLog[i].env, getMastraLog[i - 1].env) # {}) =>
              /\ getMastraLog[i].built
              /\ getMastraLog[i].count = getMastraLog[i - 1].count + 1
              /\ getMastraLog[i].ret = getMastraLog[i].count
              /\ getMastraLog[i].ret # getMastraLog[i - 1].ret
              /\ constructions[getMastraLog[i].ret].env = buildRuntimeEnv(getMastraLog[i].env)
    /\ Len(getMastraLog) > 0 =>
          /\ cachedMastraPromise = getMastraLog[Len(getMastraLog)].ret
          /\ cachedEnvSignature = getMastraLog[Len(getMastraLog)].signature

\* Two consecutive calls differ in the API key only, and the second one built.
C2_Witness ==
    \E i \in Calls :
        /\ i > 1
        /\ DifferingFields(getMastraLog[i].env, getMastraLog[i - 1].env) = {"OPENAI_API_KEY"}
        /\ getMastraLog[i].built
        /\ constructions[getMastraLog[i - 1].ret].state = "fulfilled"

InFlight == {c \in 1..Len(constructions) : constructions[c].state = "pending"}

\* C4 as stated: at any time at most one construction is in flight for each
\* configuration serialization.
C4_OneInFlightPerSignature ==
    \A c \in InFlight, d \in InFlight :
        serializeEnv(constructions[c].env) = serializeEnv(constructions[d].env) => c = d

\* C5: the construction a request got from getMastra was made from a
\* configuration that serializes like the request's own bindings, and so
\* was the runtime whose agent the request calls.
C5_OwnConfiguration ==
    /\ \A r \in Reqs :
          req[r].got # 0 =>
              serializeEnv(constructions[req[r].got].env) =
                  serializeEnv(buildRuntimeEnv(req[r].env))
    /\ \A r \in Reqs : \A k \in 1..Len(agentCalls[r]) :
          agentCalls[r][k].runtime # 0 =>
              /\ constructions[agentCalls[r][k].runtime].state = "fulfilled"
              /\ serializeEnv(constructions[agentCalls[r][k].runtime].env) =
                    serializeEnv(buildRuntimeEnv(req[r].env))

\* Requests of two configurations interleave and each calls the agent of a
\* runtime of its own.
C5_Witness ==
    \E r \in Reqs, q \in Reqs :
        /\ r < q
        /\ req[r].env.OPENAI_API_KEY # req[q].env.OPENAI_API_KEY
        /\ Len(agentCalls[r]) = 1 /\ Len(agentCalls[q]) = 1
        /\ agentCalls[r][1].runtime # 0 /\ agentCalls[q][1].runtime # 0
        /\ agentCalls[r][1].runtime > agentCalls[q][1].runtime

\* C6: the cache is one entry: signature and promise are both null or both
\* set; once set they are those of the most recent getMastra call, the
\* promise being the construction started for that signature; and a call
\* that returns to an earlier configuration after another one builds anew.
C6_SingleEntry ==
    /\ (cachedEnvSignature = NullSig) <=> (cachedMastraPromise = 0)
    /\ (cachedMastraPromise = 0) <=> (getMastraLog = <<>>)
    /\ cachedMastraPromise # 0 =>
          /\ cachedEnvSignature = getMastraLog[Len(getMastraLog)].signature
          /\ cachedMastraPromise = getMastraLog[Len(getMastraLog)].ret
          /\ cachedMastraPromise \in 1..Len(constructions)
          /\ serializeEnv(constructions[cachedMastraPromise].env) = cachedEnvSignature
    /\ \A i \in Calls, j \in Calls :
          (/\ i < j
           /\ getMastraLog[i].signature = getMastraLog[j].signature
           /\ getMastraLog[j - 1].signature # getMastraLog[j].signature) =>
              /\ getMastraLog[j].built
              /\ getMastraLog[j].ret # getMastraLog[i].ret

\* Configurations A, B, A in turn: the cache holds the third construction.
C6_Witness ==
    /\ Len(getMastraLog) = 3
    /\ getMastraLog[1].signature = getMastraLog[3].signature
    /\ getMastraLog[1].signature # getMastraLog[2].signature
    /\ cachedMastraPromise = 3
    /\ constructions[1].state = "fulfilled"

(***************************************************************************)
(* Properties of the two handlers.                                         *)
(***************************************************************************)
Route(r) == RouteOf(req[r].method, req[r].path)

CallsOf(r) == 1..Len(agentCalls[r])

GetMastraCallsOf(r) == {i \in Calls : getMastraLog[i].r = r}

\* The body was parsed and passes the scene-script validator.
SceneBodyValid(r) == req[r].body.json /\ sceneScriptSchema(req[r].body)

\* C7 as stated: a scene-script request with a valid body resolves the
\* runtime through getMastra, calls the agent registered as
\* "sceneScriptAgent" in that runtime, and ends with 200 {text, usage,
\* finishReason} when the call and its output did not fail.
C7_SceneScriptUsesCachedRuntime ==
    \A r \in Reqs :
        (Route(r) = "scene" /\ SceneBodyValid(r)) =>
            /\ req[r].pc \notin {"idle", "json"} =>
                  /\ GetMastraCallsOf(r) # {}
                  /\ req[r].got # 0
            /\ \A k \in CallsOf(r) :
                  /\ agentCalls[r][k].agent = "sceneScriptAgent"
                  /\ agentCalls[r][k].runtime = req[r].got
            /\ (req[r].pc = "done" /\ req[r].failed = "") =>
                  req[r].resp = jsonResponse(ResultBody, 200)

\* The prompt of the body is a string of 1 to MaxPromptLen characters.
WeatherPromptInRange(r) ==
    /\ req[r].body.json /\ req[r].body.object
    /\ req[r].body.prompt.kind = "string"
    /\ req[r].body.prompt.len >= 1
    /\ req[r].body.prompt.len <= MaxPromptLen

\* C8: a weather request whose prompt has 1 to 4000 characters and that met
\* no failure of the construction or of the agent ends with 200 and the
\* members text, usage and finishReason, after exactly one call of the agent
\* "weatherAgent" of the runtime getMastra returned to it, with the one
\* message {role: "user", content: prompt}.
C8_WeatherCallsAgentOnce ==
    \A r \in Reqs :
        (Route(r) = "weather" /\ WeatherPromptInRange(r)) =>
            /\ Cardinality(CallsOf(r)) <= 1
            /\ \A k \in CallsOf(r) :
                  /\ agentCalls[r][k].agent = "weatherAgent"
                  /\ agentCalls[r][k].runtime # 0
                  /\ \E i \in GetMastraCallsOf(r) :
                        getMastraLog[i].ret = agentCalls[r][k].runtime
                  /\ constructions[agentCalls[r][k].runtime].state = "fulfilled"
                  /\ agentCalls[r][k].messages = <<Message("user", req[r].body.prompt)>>
            /\ (req[r].pc = "done" /\ req[r].failed = "") =>
                  /\ req[r].resp.status = 200
                  /\ req[r].resp.body.keys = {"text", "usage", "finishReason"}
                  /\ Cardinality(CallsOf(r)) = 1
                  /\ Cardinality(GetMastraCallsOf(r)) = 1

\* A weather request with a prompt of 4000 characters ended with 200.
C8_Witness ==
    \E r \in Reqs :
        /\ Route(r) = "weather"
        /\ req[r].body.prompt = Str(MaxPromptLen)
        /\ req[r].pc = "done"
        /\ req[r].resp.status = 200
        /\ Cardinality(CallsOf(r)) = 1

\* The parsed body has neither a non-empty prompt nor a non-empty messages list.
NeitherPromptNorMessages(r) ==
    /\ req[r].body.json
    /\ ~(req[r].body.prompt.kind = "string" /\ req[r].body.prompt.len > 0)
    /\ ~(req[r].body.messages.kind = "array" /\ Len(req[r].body.messages.items) > 0)

\* C9: a scene-script request whose parsed body has neither a non-empty
\* prompt nor a non-empty messages list ends with 400 and an issues member,
\* whatever its bindings are, and no agent is called for it.
C9_SceneScriptRejectsEmpty ==
    \A r \in Reqs :
        (Route(r) = "scene" /\ NeitherPromptNorMessages(r)) =>
            /\ req[r].pc \in {"json", "done"}
            /\ CallsOf(r) = {}
            /\ req[r].agent = ""
            /\ req[r].pc = "done" =>
                  /\ req[r].resp.status = 400
                  /\ "issues" \in req[r].resp.body.keys

\* {"messages": []} without an API key in the bindings was answered with 400.
C9_Witness ==
    \E r \in Reqs :
        /\ Route(r) = "scene"
        /\ req[r].body = Body(Absent, MessageList(<<>>), Absent, Absent)
        /\ req[r].env.OPENAI_API_KEY = Undef
        /\ req[r].pc = "done"
        /\ req[r].resp = jsonResponse(IssuesBody, 400)

\* The parsed body has no prompt, an empty one or one longer than MaxPromptLen.
WeatherPromptRejected(r) ==
    /\ req[r].body.json
    /\ \/ req[r].body.prompt.kind = "absent"
       \/ (req[r].body.prompt.kind = "string" /\ req[r].body.prompt.len = 0)
       \/ (req[r].body.prompt.kind = "string" /\ req[r].body.prompt.len > MaxPromptLen)

\* C10: a weather request whose prompt is missing, empty or longer than 4000
\* characters is answered with 400 and an issues member by the very step
\* that parses its body, and that step leaves the cached signature, the
\* cached promise, the constructions and the module import as they were;
\* no getMastra call and no agent call is ever made for it.
C10_WeatherRejectLeavesCache ==
    /\ [][\A r \in DOMAIN req :
            (Route(r) = "weather" /\ WeatherPromptRejected(r) /\ req[r].pc = "json"
                 /\ req'[r] # req[r]) =>
                /\ req'[r].pc = "done"
                /\ req'[r].resp.status = 400
                /\ "issues" \in req'[r].resp.body.keys
                /\ UNCHANGED <<cachedEnvSignature, cachedMastraPromise, constructions,
                               mastraModulePromise, getMastraLog, agentCalls>>]_vars
    /\ [](\A r \in Reqs :
            (Route(r) = "weather" /\ WeatherPromptRejected(r)) =>
                /\ req[r].pc \in {"json", "done"}
                /\ GetMastraCallsOf(r) = {}
                /\ CallsOf(r) = {}
                /\ req[r].got = 0)

\* A prompt of 4001 characters was rejected while the cache held the
\* construction of another request, still in flight.
C10_Witness ==
    \E r \in Reqs :
        /\ Route(r) = "weather"
        /\ req[r].body.prompt = Str(MaxPromptLen + 1)
        /\ req[r].pc = "done"
        /\ req[r].resp = jsonResponse(IssuesBody, 400)
        /\ cachedMastraPromise # 0
        /\ constructions[cachedMastraPromise].state = "pending"

\* The body of the request is not JSON text.
BodyUnparseable(r) == Route(r) \in {"scene", "weather"} /\ ~req[r].body.json

\* C11: a POST to /api/scene-script or /api/weather whose body is not JSON
\* text is answered with 400 {"error": "Invalid JSON body"}, which has no
\* issues member and differs from the answer to a schema violation,
\* whatever the bindings are; the step that answers leaves the runtime
\* cache, the constructions, the module import and process.env as they
\* were, and no getMastra call and no agent call is ever made for it.
C11_MalformedJsonRejected ==
    /\ [][\A r \in DOMAIN req :
            (BodyUnparseable(r) /\ req[r].pc = "json" /\ req'[r] # req[r]) =>
                /\ req'[r].pc = "done"
                /\ req'[r].resp = jsonResponse(ErrorBody("Invalid JSON body"), 400)
                /\ UNCHANGED <<cachedEnvSignature, cachedMastraPromise, constructions,
                               mastraModulePromise, processEnv, getMastraLog,
                               agentCalls>>]_vars
    /\ [](\A r \in Reqs :
            BodyUnparseable(r) =>
                /\ req[r].pc \in {"json", "done"}
                /\ GetMastraCallsOf(r) = {}
                /\ CallsOf(r) = {}
                /\ req[r].got = 0 /\ req[r].agent = ""
                /\ req[r].pc = "done" =>
                      /\ req[r].resp.status = 400
                      /\ req[r].resp.body = ErrorBody("Invalid JSON body")
                      /\ "issues" \notin req[r].resp.body.keys
                      /\ req[r].resp # ErrorResponse("ZodError"))

\* Unparseable bodies were rejected on both endpoints, one of them without an
\* API key in its bindings, while neither the cache nor process.env was set.
C11_Witness ==
    \E r \in Reqs, q \in Reqs :
        /\ Route(r) = "scene" /\ Route(q) = "weather"
        /\ ~req[r].body.json /\ ~req[q].body.json
        /\ req[r].env.OPENAI_API_KEY = Undef
        /\ req[r].pc = "done" /\ req[q].pc = "done"
        /\ req[r].resp = jsonResponse(ErrorBody("Invalid JSON body"), 400)
        /\ req[q].resp = jsonResponse(ErrorBody("Invalid JSON body"), 400)
        /\ cachedMastraPromise = 0

\* The body of the request was parsed and passes the schema of its endpoint.
BodyAccepted(r) ==
    /\ req[r].body.json
    /\ IF Route(r) = "scene" THEN sceneScriptSchema(req[r].body)
       ELSE weatherSchema(req[r].body)

\* C12 as stated: a request that failed after its body was parsed and
\* validated (the construction, the agent call or the awaited output
\* rejected, with an error of whatever class) is answered with 500
\* {"error": "Internal Server Error"}, and a request is answered with 400
\* only when its body could not be parsed or violates the schema.
C12_LateFailuresAnswered500 ==
    \A r \in Reqs :
        /\ (req[r].pc = "done" /\ req[r].failed # "") =>
              req[r].resp = jsonResponse(ErrorBody("Internal Server Error"), 500)
        /\ (req[r].pc = "done" /\ req[r].resp.status = 400) =>
              (Route(r) \in {"scene", "weather"} /\ ~BodyAccepted(r))

\* C13 as stated: every response of fetch carries Content-Type:
\* application/json; charset=utf-8 and the three CORS headers.
C13_EveryResponseJsonAndCors ==
    \A r \in Reqs :
        req[r].pc = "done" =>
            /\ corsHeaders \subseteq req[r].resp.headers
            /\ <<"Content-Type", "application/json; charset=utf-8">> \in req[r].resp.headers

\* The request is none of OPTIONS *, GET /, POST /api/scene-script and
\* POST /api/weather.
Unmatched(task) ==
    /\ task.pc # "idle"
    /\ task.method # "OPTIONS"
    /\ ~(task.method = "GET" /\ task.path = "/")
    /\ ~(task.method = "POST" /\ task.path \in {"/api/scene-script", "/api/weather"})

\* C14: a request that is none of OPTIONS *, GET /, POST /api/scene-script
\* and POST /api/weather is answered with 404 {"error": "Not Found"} by the
\* step of fetch that receives it; its body is never read, no getMastra call
\* and no agent call is made for it, and that step leaves the runtime cache,
\* the constructions and the module import as they were.
C14_UnmatchedRouteNotFound ==
    /\ [][\A r \in DOMAIN req :
            (req[r].pc = "idle" /\ Unmatched(req'[r])) =>
                /\ req'[r].pc = "done"
                /\ req'[r].resp = jsonResponse(ErrorBody("Not Found"), 404)
                /\ UNCHANGED <<cachedEnvSignature, cachedMastraPromise, constructions,
                               mastraModulePromise, getMastraLog, agentCalls>>]_vars
    /\ [](\A r \in Reqs :
            Unmatched(req[r]) =>
                /\ req[r].pc = "done"
                /\ req[r].resp.status = 404
                /\ req[r].resp.body = ErrorBody("Not Found")
                /\ req[r].input = NoBody
                /\ GetMastraCallsOf(r) = {}
                /\ CallsOf(r) = {}
                /\ req[r].got = 0 /\ req[r].agent = "")

\* GET /api/weather and POST / were both answered with 404.
C14_Witness ==
    \E r \in Reqs, q \in Reqs :
        /\ req[r].method = "GET" /\ req[r].path = "/api/weather"
        /\ req[q].method = "POST" /\ req[q].path = "/"
        /\ req[r].pc = "done" /\ req[q].pc = "done"
        /\ req[r].resp = jsonResponse(ErrorBody("Not Found"), 404)
        /\ req[q].resp = jsonResponse(ErrorBody("Not Found"), 404)

\* C15: a request with method OPTIONS, whatever its path, is answered with
\* 204, an empty body and exactly the three CORS headers by the step of
\* fetch that receives it; no handler runs for it (its body is never read,
\* no getMastra call and no agent call is made), and that step leaves the
\* runtime cache, the constructions and the module import as they were.
C15_OptionsAnswered204 ==
    /\ [][\A r \in DOMAIN req :
            (req[r].pc = "idle" /\ req'[r].pc # "idle" /\ req'[r].method = "OPTIONS") =>
                /\ req'[r].pc = "done"
                /\ req'[r].resp.status = 204
                /\ UNCHANGED <<cachedEnvSignature, cachedMastraPromise, constructions,
                               mastraModulePromise, getMastraLog, agentCalls>>]_vars
    /\ [](\A r \in Reqs :
            (req[r].pc # "idle" /\ req[r].method = "OPTIONS") =>
                /\ req[r].pc = "done"
                /\ req[r].resp.status = 204
                /\ req[r].resp.body = EmptyBody
                /\ req[r].resp.headers = corsHeaders
                /\ req[r].input = NoBody
                /\ GetMastraCallsOf(r) = {}
                /\ CallsOf(r) = {}
                /\ req[r].got = 0 /\ req[r].agent = "")

\* OPTIONS on /api/weather and on an unknown path were both answered with 204.
C15_Witness ==
    \E r \in Reqs, q \in Reqs :
        /\ req[r].method = "OPTIONS" /\ req[r].path = "/api/weather"
        /\ req[q].method = "OPTIONS" /\ req[q].path = "/api/unknown"
        /\ req[r].pc = "done" /\ req[q].pc = "done"
        /\ req[r].resp.status = 204 /\ req[q].resp.status = 204

\* Content as the specification admits it: non-empty text, a non-empty
\* sequence of parts, or a non-empty object.
ContentNonEmpty(content) ==
    /\ content.kind \in {"string", "array", "object"}
    /\ content.len >= 1

\* The body is {"messages": [...]} with one message or more, each of a known
\* role and with non-empty content.
MessagesOnlyBody(r) ==
    /\ req[r].body.json /\ req[r].body.object
    /\ req[r].body.prompt = Absent
    /\ req[r].body.threadId = Absent /\ req[r].body.resourceId = Absent
    /\ req[r].body.messages.kind = "array"
    /\ Len(req[r].body.messages.items) >= 1
    /\ \A i \in 1..Len(req[r].body.messages.items) :
          /\ req[r].body.messages.items[i].role \in ZRoles
          /\ ContentNonEmpty(req[r].body.messages.items[i].content)

\* C16 as stated: a scene-script request whose messages have non-empty
\* text, a non-empty sequence of parts or a non-empty object as content
\* passes the validator: it is not answered with 400.
C16_PartsContentAccepted ==
    \A r \in Reqs :
        (Route(r) = "scene" /\ MessagesOnlyBody(r)) =>
            /\ sceneScriptSchema(req[r].body)
            /\ req[r].pc = "done" => req[r].resp.status # 400

\* C19 as stated: the message list handed to the agent by a scene-script
\* request is never empty: it is the messages of the body when they are
\* non-empty, and otherwise the one user message made of the prompt.
C19_AgentMessagesNonEmpty ==
    \A r \in Reqs : \A k \in CallsOf(r) :
        Route(r) = "scene" =>
            /\ agentCalls[r][k].messages # <<>>
            /\ agentCalls[r][k].messages =
                  (IF req[r].body.messages.kind = "array"
                      /\ Len(req[r].body.messages.items) > 0
                   THEN req[r].body.messages.items
                   ELSE <<Message("user", req[r].body.prompt)>>)

\* C20 as stated: the API key a scene-script request's agent resolves its
\* model with is the OPENAI_API_KEY of that request's own bindings, under
\* every interleaving with other requests.
C20_OwnKeyAtResolution ==
    \A r \in Reqs :
        (Route(r) = "scene" /\ req[r].model.resolved) =>
            req[r].model.apiKey = req[r].env.OPENAI_API_KEY

(***************************************************************************)
(* Properties of the model configuration and of the persistence store.     *)
(***************************************************************************)
\* The API key getDefaultModelConfig found: LLM_API_KEY when it is present,
\* else OPENAI_API_KEY.
KeyFound(source) ==
    IF source.LLM_API_KEY # Undef THEN source.LLM_API_KEY ELSE source.OPENAI_API_KEY

\* C17: in the model configuration an agent resolved, the API key is that
\* of LLM_API_KEY whenever LLM_API_KEY is present (no key when it is
\* empty), whatever OPENAI_API_KEY is; OPENAI_API_KEY is the key only when
\* LLM_API_KEY is absent; and when neither the base URL nor the key nor the
\* parsed extra headers is non-empty the result is the bare model id
\* (LLM_MODEL_ID, or openai/gpt-4o-mini), else an override with that id.
C17_ApiKeyPrecedence ==
    \A r \in Reqs :
        req[r].model.resolved =>
            LET source == req[r].modelSource
                model == req[r].model
            IN  /\ source.LLM_API_KEY # Undef =>
                      model.apiKey = (IF source.LLM_API_KEY # "" THEN source.LLM_API_KEY
                                      ELSE Undef)
                /\ source.LLM_API_KEY = Undef =>
                      model.apiKey = (IF source.OPENAI_API_KEY # "" THEN source.OPENAI_API_KEY
                                      ELSE Undef)
                /\ (model.apiKey # Undef /\ model.apiKey # source.LLM_API_KEY) =>
                      (source.LLM_API_KEY = Undef /\ model.apiKey = source.OPENAI_API_KEY)
                /\ model.override <=>
                      \/ Truthy(source.LLM_BASE_URL)
                      \/ Truthy(KeyFound(source))
                      \/ source.LLM_EXTRA_HEADERS = "{'X-Trace':'1'}"
                /\ ~model.override =>
                      (model.url = Undef /\ model.apiKey = Undef /\ model.headers = Undef)
                /\ model.id = (IF source.LLM_MODEL_ID # Undef THEN source.LLM_MODEL_ID
                                ELSE "openai/gpt-4o-mini")

\* A scene-script request resolved its model while process.env held both
\* keys, and got LLM_API_KEY.
C17_Witness ==
    \E r \in Reqs :
        /\ Route(r) = "scene"
        /\ req[r].model.resolved
        /\ req[r].modelSource.LLM_API_KEY = "lk1"
        /\ req[r].modelSource.OPENAI_API_KEY = "ok2"
        /\ req[r].model.apiKey = "lk1"

\* The runtimes createMastra built.
Built == {c \in 1..Len(constructions) : constructions[c].state = "fulfilled"}

\* The token option of a store made for a configured URL.
TokenOption(env) ==
    IF env.LIBSQL_AUTH_TOKEN \notin {Undef, ""} THEN env.LIBSQL_AUTH_TOKEN ELSE Undef

\* C18 as stated: the store is chosen from LIBSQL_URL alone: a URL of a
\* supported remote scheme gives the remote store of that URL, a file: URL
\* the local-file store, and an absent, empty or unsupported URL the
\* in-memory store; the token is passed only when it is non-empty.
C18_StoreByUrlAlone ==
    \A c \in Built :
        LET env == constructions[c].env
            store == constructions[c].store
        IN  /\ env.LIBSQL_URL \in RemoteUrls \cup FileUrls =>
                  store = Store("LibSQLStore", env.LIBSQL_URL, TokenOption(env))
            /\ env.LIBSQL_URL \in {Undef, ""} \cup UnsupportedUrls =>
                  store = Store("InMemoryStore", Undef, Undef)

\* C18 amended: the store is chosen from LIBSQL_URL and from whether the
\* process is a Node.js process.  A URL of a supported remote scheme gives
\* the LibSQL store of that URL; a file: URL gives the LibSQL store of that
\* URL on Node.js and the in-memory store elsewhere; an absent or empty URL
\* gives the LibSQL store of file:../mastra.db, without token, on Node.js
\* and the in-memory store elsewhere; a URL of an unsupported scheme gives
\* the in-memory store.  The token is passed only to a store made for the
\* configured URL, and only when it is non-empty.
C18_StoreByUrlAndRuntime ==
    \A c \in Built :
        LET env == constructions[c].env
            store == constructions[c].store
        IN  /\ env.LIBSQL_URL \in RemoteUrls =>
                  store = Store("LibSQLStore", env.LIBSQL_URL, TokenOption(env))
            /\ env.LIBSQL_URL \in FileUrls =>
                  store = (IF isNodeRuntime
                           THEN Store("LibSQLStore", env.LIBSQL_URL, TokenOption(env))
                           ELSE Store("InMemoryStore", Undef, Undef))
            /\ env.LIBSQL_URL \in {Undef, ""} =>
                  store = (IF isNodeRuntime
                           THEN Store("LibSQLStore", "file:../mastra.db", Undef)
                           ELSE Store("InMemoryStore", Undef, Undef))
            /\ env.LIBSQL_URL \in UnsupportedUrls =>
                  store = Store("InMemoryStore", Undef, Undef)
            /\ store.authToken # Undef =>
                  (store.authToken = env.LIBSQL_AUTH_TOKEN /\ store.authToken # "")

\* On Node.js a runtime was built without LIBSQL_URL and with a token: its
\* store is the LibSQL store of file:../mastra.db, without the token.
C18_Witness ==
    /\ isNodeRuntime
    /\ \E c \in Built :
          /\ constructions[c].env.LIBSQL_URL = Undef
          /\ constructions[c].env.LIBSQL_AUTH_TOKEN = "tok1"
          /\ constructions[c].store = Store("LibSQLStore", "file:../mastra.db", Undef)

(***************************************************************************)
(* Properties of a failed construction.                                    *)
(***************************************************************************)
\* The cached promise has rejected.
CachedRejected ==
    /\ cachedMastraPromise # 0
    /\ constructions[cachedMastraPromise].state = "rejected"

\* The step is a getMastra call.
GetMastraStep == Len(getMastraLog') = Len(getMastraLog) + 1

\* A getMastra call made while the cached promise has rejected: with the
\* cached signature it starts no construction and returns that rejected
\* promise, leaving the cache as it was; with another signature it starts
\* one construction and replaces the entry.
RejectedEntryKept ==
    (GetMastraStep /\ CachedRejected) =>
        LET call == getMastraLog'[Len(getMastraLog')]
        IN  IF call.signature = cachedEnvSignature
            THEN /\ ~call.built
                 /\ call.ret = cachedMastraPromise
                 /\ UNCHANGED <<constructions, cachedMastraPromise, cachedEnvSignature,
                                mastraModulePromise>>
            ELSE /\ call.built
                 /\ call.ret = Len(constructions) + 1
                 /\ Len(constructions') = Len(constructions) + 1
                 /\ cachedMastraPromise' = call.ret
                 /\ cachedEnvSignature' = call.signature

\* A failed import stays memoized: it is never started again, whatever the
\* configuration of later calls is.
FailedImportKept == ModuleRejected => mastraModulePromise' = mastraModulePromise

\* After a failed import createMastra has run for no construction, and every
\* construction that settled rejected with the error of the import.
FailedImportFailsAll ==
    ModuleRejected =>
        \A c \in 1..Len(constructions) :
            /\ constructions[c].created = 0
            /\ constructions[c].state \in {"pending", "rejected"}
            /\ constructions[c].state = "rejected" => constructions[c].error = ModuleError

\* The weather requests whose construction rejected.
FailedByConstruction ==
    {r \in Reqs : Route(r) = "weather" /\ req[r].got # 0
                      /\ constructions[req[r].got].state = "rejected"}

====
